---- MODULE Spec2Model ----
(***************************************************************************)
(* Model of the Express/Multer/S3 file uploader (src/index.ts).            *)
(*                                                                         *)
(* Strings are sequences of one-character strings, so that path.extname,  *)
(* toLowerCase, RegExp.test, substring and template concatenation are     *)
(* computed the way the code computes them.                                *)
(***************************************************************************)
EXTENDS Integers, Sequences, FiniteSets, TLC

VARIABLES
    pc,         \* position of each request's handler
    req,        \* the request: method, multipart file part, body key
    reqFile,    \* req.file as set by the upload middleware (<<>>: undefined)
    reqErr,     \* error handed to the /upload completion callback ("": none)
    bucket,     \* objects held by the bucket, by key
    written,    \* log of the objects the storage service has stored
    putCalls,   \* per request, the keys of the uploads it started
    delCalls,   \* per request, the DeleteObjectCommand inputs it sent
    settled,    \* per request, how the delete promise settled ("": pending)
    responses,  \* per request, the responses sent so far
    probe       \* argument and result of a function applied on its own

vars == <<pc, req, reqFile, reqErr, bucket, written, putCalls, delCalls,
          settled, responses, probe>>

serverVars == <<pc, req, reqFile, reqErr, bucket, written, putCalls, delCalls,
                settled, responses>>

(***************************************************************************)
(* Bounds                                                                  *)
(***************************************************************************)
\* number of request slots that may be in flight together
NumReqs == 2
\* longest fractional part of Math.random().toString(36) that is enumerated
MaxFrac == 14

(***************************************************************************)
(* Program constants                                                       *)
(***************************************************************************)
\* limits: { fileSize: 11000000 }
fileSize == 11000000
\* substring(2, 15)
SubstringStart == 2
SubstringEnd == 15

(***************************************************************************)
(* String helpers (JavaScript String / path semantics)                     *)
(***************************************************************************)
Min(a, b) == IF a < b THEN a ELSE b

UpperChars == <<"A","B","C","D","E","F","G","H","I","J","K","L","M",
                "N","O","P","Q","R","S","T","U","V","W","X","Y","Z">>
LowerChars == <<"a","b","c","d","e","f","g","h","i","j","k","l","m",
                "n","o","p","q","r","s","t","u","v","w","x","y","z">>
DigitChars == {"0","1","2","3","4","5","6","7","8","9"}

\* the alphabet of Number.prototype.toString(36)
Base36Chars == DigitChars \cup {LowerChars[i] : i \in 1..26}

LowerChar(c) ==
    IF \E i \in 1..26 : UpperChars[i] = c
    THEN LowerChars[CHOOSE i \in 1..26 : UpperChars[i] = c]
    ELSE c

\* String.prototype.toLowerCase
toLowerCase(s) == [i \in 1..Len(s) |-> LowerChar(s[i])]

\* String.prototype.substring(start, end) for 0 <= start <= end
substring(s, start, end) ==
    SubSeq(s, Min(start, Len(s)) + 1, Min(end, Len(s)))

\* String.prototype.lastIndexOf for a single character, 1-based, 0 if absent
LastIndexOf(s, c) ==
    LET hits == {i \in 1..Len(s) : s[i] = c}
    IN IF hits = {} THEN 0 ELSE CHOOSE i \in hits : \A j \in hits : j <= i

\* s contains p as a contiguous substring
Contains(s, p) ==
    \E i \in 0..(Len(s) - Len(p)) : SubSeq(s, i + 1, i + Len(p)) = p

\* path.extname (posix): from the last "." of the last path component to the
\* end; empty when there is no ".", when the "." is the first character of
\* the component, or when the component is ".."
extname(p) ==
    LET sp   == LastIndexOf(p, "/")
        base == SubSeq(p, sp + 1, Len(p))
        d    == LastIndexOf(base, ".")
    IN IF d = 0 \/ d = 1 THEN <<>>
       ELSE IF base = <<".", ".">> THEN <<>>
       ELSE SubSeq(base, d, Len(base))

(***************************************************************************)
(* checkFileType                                                           *)
(***************************************************************************)
s_jpeg == <<"j","p","e","g">>
s_jpg  == <<"j","p","g">>
s_png  == <<"p","n","g">>
s_gif  == <<"g","i","f">>

\* const filetypes = /jpeg|jpg|png|gif/
filetypes == {s_jpeg, s_jpg, s_png, s_gif}

\* RegExp.prototype.test for an unanchored alternation of literals
RegexTest(alternatives, s) == \E p \in alternatives : Contains(s, p)

ImagesOnly == "Error: Images Only!"

\* the arguments checkFileType hands to cb: cb(null, true) or cb('Error: ...')
checkFileType(file) ==
    LET extOk  == RegexTest(filetypes, toLowerCase(extname(file.originalname)))
        mimeOk == RegexTest(filetypes, file.mimetype)
    IN IF mimeOk /\ extOk
       THEN [err |-> "", accept |-> TRUE]
       ELSE [err |-> ImagesOnly, accept |-> FALSE]

(***************************************************************************)
(* getRandomFileName                                                       *)
(***************************************************************************)
\* Math.random().toString(36): "0" for 0, otherwise "0." followed by a
\* non-empty run of base-36 digits.  A value is named by the length of its
\* fractional part and the digit it is made of.
RandomDigits == {"i", "7"}

RandomString(len, d) ==
    IF len = 0 THEN <<"0">> ELSE <<"0", ".">> \o [i \in 1..len |-> d]

RandomStrings == {RandomString(len, d) : len \in 0..MaxFrac, d \in RandomDigits}

\* variant: the extension is normalised to lower case
getRandomFileNameLower(file, a, b) ==
    substring(a, SubstringStart, SubstringEnd)
      \o substring(b, SubstringStart, SubstringEnd)
      \o toLowerCase(extname(file.originalname))

\* `${a.substring(2, 15) + b.substring(2, 15) + path.extname(file.originalname)}`
getRandomFileName(file, a, b) ==
    substring(a, SubstringStart, SubstringEnd)
      \o substring(b, SubstringStart, SubstringEnd)
      \o extname(file.originalname)

KeyPrefix == <<"s","a","s","k","e","n","g","a","l","l","e","r","y","/">>

\* key: cb(null, `saskengallery/${getRandomFileName(file)}`)
StorageKey(file, a, b) == KeyPrefix \o getRandomFileName(file, a, b)

(***************************************************************************)
(* Inputs                                                                  *)
(***************************************************************************)
n_a_jpg    == <<"a",".","j","p","g">>
n_a_JPG    == <<"a",".","J","P","G">>
n_a_jpeg   == <<"a",".","j","p","e","g">>
n_a_PnG    == <<"a",".","P","n","G">>
n_a_gif    == <<"a",".","g","i","f">>
n_a_b_GIF  == <<"a",".","b",".","G","I","F">>
n_a_txt    == <<"a",".","t","x","t">>
n_a_jpgx   == <<"a",".","j","p","g","x">>
n_a_xpng   == <<"a",".","x","p","n","g">>
n_a_png_js == <<"a",".","p","n","g",".","j","s">>
n_jpg      == <<"j","p","g">>
n_dotgif   == <<".","g","i","f">>
n_a_dot    == <<"a",".">>
n_dotdot   == <<".",".">>
n_dir_png  == <<"p","n","g","/","a",".","t","x","t">>

FileNames == {n_a_jpg, n_a_JPG, n_a_jpeg, n_a_PnG, n_a_gif, n_a_b_GIF, n_a_txt,
              n_a_jpgx, n_a_xpng, n_a_png_js, n_jpg, n_dotgif, n_a_dot,
              n_dotdot, n_dir_png}

m_image == <<"i","m","a","g","e","/">>
m_image_jpeg == m_image \o s_jpeg
m_image_jpg  == m_image \o s_jpg
m_image_png  == m_image \o s_png
m_image_gif  == m_image \o s_gif
m_image_PNG  == m_image \o <<"P","N","G">>
m_image_svg  == m_image \o <<"s","v","g">>
m_image_pngx == m_image \o <<"p","n","g","x">>
m_text_plain == <<"t","e","x","t","/","p","l","a","i","n">>
m_text_gif   == <<"t","e","x","t","/","g","i","f">>

MimeTypes == {m_image_jpeg, m_image_jpg, m_image_png, m_image_gif, m_image_PNG,
              m_image_svg, m_image_pngx, m_text_plain, m_text_gif}

\* the four extensions and the image types of the same four names
AllowedExts  == {<<".">> \o t : t \in filetypes}
AllowedMimes == {m_image \o t : t \in filetypes}

\* multipart file parts offered to POST /upload by the server specification
UploadFields == {"image", "avatar"}
UploadNames  == {n_a_JPG, n_a_txt}
UploadMimes  == {m_image_jpeg}
UploadSizes  == {2000000, 12000000}

UploadFiles ==
    [fieldname : UploadFields, originalname : UploadNames,
     mimetype : UploadMimes, size : UploadSizes]

\* Math.random() results offered to the server specification
ServerRandoms == {RandomString(1, "i"), RandomString(MaxFrac, "7")}

\* JSON bodies offered to DELETE /delete: key undefined (<<>>), "" or a key
DeleteKeys ==
    {<<>>, << <<>> >>,
     << StorageKey([originalname |-> n_a_JPG],
                   RandomString(1, "i"), RandomString(1, "i")) >>}

\* reasons with which the storage delete call may reject
RejectReasons == {"NetworkingError", "AccessDenied", "NoSuchKey"}

Reqs == 1..NumReqs

\* process.env.AWS_BUCKET_PATH
AWS_BUCKET_PATH == <<"h","t","t","p",":","/","/","b">>

(***************************************************************************)
(* Bucket: a function from the keys of the stored objects to the objects   *)
(***************************************************************************)
PutObject(b, k, o) ==
    [x \in (DOMAIN b) \cup {k} |-> IF x = k THEN o ELSE b[x]]

DeleteObject(b, k) == [x \in (DOMAIN b) \ {k} |-> b[x]]

EmptyBucket == [x \in {} |-> x]

(***************************************************************************)
(* State                                                                   *)
(***************************************************************************)
NoRequest == [method |-> "NONE", file |-> <<>>, key |-> <<>>]

NoProbe == [phase |-> "off"]

ServerInit ==
    /\ pc = [r \in Reqs |-> "idle"]
    /\ req = [r \in Reqs |-> NoRequest]
    /\ reqFile = [r \in Reqs |-> <<>>]
    /\ reqErr = [r \in Reqs |-> ""]
    /\ bucket = EmptyBucket
    /\ written = <<>>
    /\ putCalls = [r \in Reqs |-> <<>>]
    /\ delCalls = [r \in Reqs |-> <<>>]
    /\ settled = [r \in Reqs |-> ""]
    /\ responses = [r \in Reqs |-> <<>>]

Init == ServerInit /\ probe = NoProbe

(***************************************************************************)
(* POST /upload                                                            *)
(***************************************************************************)
\* res.json(body) under the current status code
Json(status, body) == [status |-> status, body |-> body]

\* the request reaches upload(req, res, cb): multer's single('image') parses
\* the multipart body.  files is <<>> (no file part) or <<f>>.
PostUpload(r, files) ==
    /\ pc[r] = "idle"
    /\ req' = [req EXCEPT ![r] = [method |-> "POST", file |-> files, key |-> <<>>]]
    /\ IF files = <<>>
       THEN /\ pc' = [pc EXCEPT ![r] = "callback"]
            /\ UNCHANGED reqErr
       ELSE IF files[1].fieldname # "image"
       THEN /\ pc' = [pc EXCEPT ![r] = "callback"]
            /\ reqErr' = [reqErr EXCEPT ![r] = "LIMIT_UNEXPECTED_FILE"]
       ELSE /\ pc' = [pc EXCEPT ![r] = "filter"]
            /\ UNCHANGED reqErr
    /\ UNCHANGED <<reqFile, bucket, written, putCalls, delCalls, settled, responses, probe>>

\* variant: the filter's error is recorded but the upload goes on
FileFilterNoAbort(r) ==
    /\ pc[r] = "filter"
    /\ LET res == checkFileType(req[r].file[1])
       IN /\ pc' = [pc EXCEPT ![r] = "key"]
          /\ reqErr' = [reqErr EXCEPT ![r] = res.err]
    /\ UNCHANGED <<req, reqFile, bucket, written, putCalls, delCalls, settled, responses, probe>>

\* fileFilter: function (req, file, cb) { checkFileType(file, cb); }
FileFilter(r) ==
    /\ pc[r] = "filter"
    /\ LET res == checkFileType(req[r].file[1])
       IN IF res.accept
          THEN /\ pc' = [pc EXCEPT ![r] = "key"]
               /\ UNCHANGED reqErr
          ELSE /\ pc' = [pc EXCEPT ![r] = "callback"]
               /\ reqErr' = [reqErr EXCEPT ![r] = res.err]
    /\ UNCHANGED <<req, reqFile, bucket, written, putCalls, delCalls, settled, responses, probe>>

\* storage.key computes the key from two Math.random() draws and the upload
\* to the bucket is started under it
KeyAndSend(r, a, b) ==
    /\ pc[r] = "key"
    /\ putCalls' = [putCalls EXCEPT
                      ![r] = Append(@, StorageKey(req[r].file[1], a, b))]
    /\ pc' = [pc EXCEPT ![r] = "storing"]
    /\ UNCHANGED <<req, reqFile, reqErr, bucket, written, delCalls, settled, responses, probe>>

\* variant: the uploaded file's info is kept in one place for all requests
PutSettleShared(r, ok, kept) ==
    /\ pc[r] = "storing"
    /\ LET k == putCalls[r][Len(putCalls[r])]
       IN IF ok
          THEN /\ bucket' = PutObject(bucket, k, [owner |-> r, partial |-> FALSE])
               /\ written' = Append(written, [key |-> k, owner |-> r, partial |-> FALSE])
               /\ reqFile' = [q \in Reqs |-> << [key |-> k] >>]
               /\ UNCHANGED reqErr
          ELSE /\ reqErr' = [reqErr EXCEPT ![r] = "S3UploadError"]
               /\ UNCHANGED <<bucket, written, reqFile>>
    /\ pc' = [pc EXCEPT ![r] = "callback"]
    /\ UNCHANGED <<req, putCalls, delCalls, settled, responses, probe>>

\* the upload settles.  ok: the storage service stored the streamed bytes.
\* A file over limits.fileSize is cut at the limit and the middleware fails
\* with LIMIT_FILE_SIZE; whether the truncated object is left in the bucket
\* is decided by the storage engine's clean-up (kept) and is not fixed here.
PutSettle(r, ok, kept) ==
    /\ pc[r] = "storing"
    /\ LET k == putCalls[r][Len(putCalls[r])]
           f == req[r].file[1]
       IN IF f.size > fileSize
          THEN /\ reqErr' = [reqErr EXCEPT ![r] = "LIMIT_FILE_SIZE"]
               /\ bucket' = IF ~ok THEN bucket
                            ELSE IF kept
                            THEN PutObject(bucket, k, [owner |-> r, partial |-> TRUE])
                            ELSE DeleteObject(bucket, k)
               /\ written' = IF ok
                             THEN Append(written, [key |-> k, owner |-> r, partial |-> TRUE])
                             ELSE written
               /\ UNCHANGED reqFile
          ELSE IF ok
          THEN /\ bucket' = PutObject(bucket, k, [owner |-> r, partial |-> FALSE])
               /\ written' = Append(written, [key |-> k, owner |-> r, partial |-> FALSE])
               /\ reqFile' = [reqFile EXCEPT ![r] = << [key |-> k] >>]
               /\ UNCHANGED reqErr
          ELSE /\ reqErr' = [reqErr EXCEPT ![r] = "S3UploadError"]
               /\ UNCHANGED <<bucket, written, reqFile>>
    /\ pc' = [pc EXCEPT ![r] = "callback"]
    /\ UNCHANGED <<req, putCalls, delCalls, settled, responses, probe>>

NoFileSelected == "No File Selected"
ImageUploaded == "Image Uploaded Successfully!"

\* variant: the URL is built from the client's file name
FileUrlOriginalName(r) ==
    AWS_BUCKET_PATH \o <<"/">> \o req[r].file[1].originalname

\* `${process.env.AWS_BUCKET_PATH}/${req.file.key}`
FileUrl(r) == AWS_BUCKET_PATH \o <<"/">> \o reqFile[r][1].key

\* variant: a missing file is answered with status 400
UploadCallbackNoFile400(r) ==
    /\ pc[r] = "callback"
    /\ responses' = [responses EXCEPT ![r] = Append(@,
          IF reqErr[r] # ""
          THEN Json(200, [error |-> reqErr[r]])
          ELSE IF reqFile[r] = <<>>
          THEN Json(400, [error |-> NoFileSelected])
          ELSE Json(200, [response |-> ImageUploaded, fileUrl |-> FileUrl(r)]))]
    /\ pc' = [pc EXCEPT ![r] = "done"]
    /\ UNCHANGED <<req, reqFile, reqErr, bucket, written, putCalls, delCalls, settled, probe>>

\* the completion callback (error) => { ... } of the /upload route
UploadCallback(r) ==
    /\ pc[r] = "callback"
    /\ responses' = [responses EXCEPT ![r] = Append(@,
          IF reqErr[r] # ""
          THEN Json(200, [error |-> reqErr[r]])
          ELSE IF reqFile[r] = <<>>
          THEN Json(200, [error |-> NoFileSelected])
          ELSE Json(200, [response |-> ImageUploaded, fileUrl |-> FileUrl(r)]))]
    /\ pc' = [pc EXCEPT ![r] = "done"]
    /\ UNCHANGED <<req, reqFile, reqErr, bucket, written, putCalls, delCalls, settled, probe>>

(***************************************************************************)
(* DELETE /delete                                                          *)
(***************************************************************************)
FileDeleted == "File deleted successfully"
FailedToDelete == "Failed to delete file from S3"

\* const { key } = req.body; s3.send(new DeleteObjectCommand({Bucket, Key: key}))
DeleteRequest(r, key) ==
    /\ pc[r] = "idle"
    /\ req' = [req EXCEPT ![r] = [method |-> "DELETE", file |-> <<>>, key |-> key]]
    /\ delCalls' = [delCalls EXCEPT ![r] = Append(@, [Key |-> key])]
    /\ pc' = [pc EXCEPT ![r] = "pending"]
    /\ UNCHANGED <<reqFile, reqErr, bucket, written, putCalls, settled, responses, probe>>

\* the promise returned by s3.send settles: fulfilled, or rejected with reason
DeleteSettle(r, outcome) ==
    /\ pc[r] = "pending"
    /\ settled' = [settled EXCEPT ![r] = outcome]
    /\ LET key == delCalls[r][Len(delCalls[r])].Key
       IN IF outcome = "fulfilled"
          THEN /\ pc' = [pc EXCEPT ![r] = "then"]
               /\ bucket' = IF key = <<>> THEN bucket
                            ELSE DeleteObject(bucket, key[1])
          ELSE /\ pc' = [pc EXCEPT ![r] = "catch"]
               /\ UNCHANGED bucket
    /\ UNCHANGED <<req, reqFile, reqErr, written, putCalls, delCalls, responses, probe>>

\* .then((ress) => { res.json({ message: 'File deleted successfully' }) })
DeleteThen(r) ==
    /\ pc[r] = "then"
    /\ responses' = [responses EXCEPT
                       ![r] = Append(@, Json(200, [message |-> FileDeleted]))]
    /\ pc' = [pc EXCEPT ![r] = "done"]
    /\ UNCHANGED <<req, reqFile, reqErr, bucket, written, putCalls, delCalls, settled, probe>>

\* variant: the rejection reason is sent to the client
DeleteCatchLeak(r) ==
    /\ pc[r] = "catch"
    /\ responses' = [responses EXCEPT
                       ![r] = Append(@, Json(500, [error |-> settled[r]]))]
    /\ pc' = [pc EXCEPT ![r] = "done"]
    /\ UNCHANGED <<req, reqFile, reqErr, bucket, written, putCalls, delCalls, settled, probe>>

\* variant: a rejected delete is sent again before answering
DeleteCatchRetry(r) ==
    /\ pc[r] = "catch"
    /\ IF Len(delCalls[r]) < 2
       THEN /\ delCalls' = [delCalls EXCEPT ![r] = Append(@, [Key |-> req[r].key])]
            /\ pc' = [pc EXCEPT ![r] = "pending"]
            /\ UNCHANGED responses
       ELSE /\ responses' = [responses EXCEPT
                               ![r] = Append(@, Json(500, [error |-> FailedToDelete]))]
            /\ pc' = [pc EXCEPT ![r] = "done"]
            /\ UNCHANGED delCalls
    /\ UNCHANGED <<req, reqFile, reqErr, bucket, written, putCalls, settled, probe>>

\* .catch((error) => { res.status(500).json({ error: 'Failed to delete ...' }) })
DeleteCatch(r) ==
    /\ pc[r] = "catch"
    /\ responses' = [responses EXCEPT
                       ![r] = Append(@, Json(500, [error |-> FailedToDelete]))]
    /\ pc' = [pc EXCEPT ![r] = "done"]
    /\ UNCHANGED <<req, reqFile, reqErr, bucket, written, putCalls, delCalls, settled, probe>>

Next ==
    \/ \E r \in Reqs : PostUpload(r, <<>>)
    \/ \E r \in Reqs, f \in UploadFiles : PostUpload(r, <<f>>)
    \/ \E r \in Reqs : FileFilter(r)
    \/ \E r \in Reqs, a \in ServerRandoms, b \in ServerRandoms : KeyAndSend(r, a, b)
    \/ \E r \in Reqs, ok \in BOOLEAN, kept \in BOOLEAN : PutSettle(r, ok, kept)
    \/ \E r \in Reqs : UploadCallback(r)
    \/ \E r \in Reqs, key \in DeleteKeys : DeleteRequest(r, key)
    \/ \E r \in Reqs, o \in {"fulfilled"} \cup RejectReasons : DeleteSettle(r, o)
    \/ \E r \in Reqs : DeleteThen(r)
    \/ \E r \in Reqs : DeleteCatch(r)

Spec == Init /\ [][Next]_vars

(***************************************************************************)
(* checkFileType and getRandomFileName applied on their own                *)
(***************************************************************************)
FilterInit ==
    /\ ServerInit
    /\ probe \in [phase : {"in"}, originalname : FileNames, mimetype : MimeTypes]

\* checkFileType(file, cb) is called and cb receives its arguments
FilterProbe ==
    /\ probe.phase = "in"
    /\ probe' = [phase |-> "out",
                 originalname |-> probe.originalname,
                 mimetype |-> probe.mimetype,
                 result |-> checkFileType(probe)]
    /\ UNCHANGED serverVars

SpecFilter == FilterInit /\ [][FilterProbe]_vars

NameInit ==
    /\ ServerInit
    /\ probe \in [phase : {"in"}, originalname : FileNames,
                  mimetype : {m_image_png}, a : RandomStrings, b : RandomStrings]

\* the key callback runs for a file the filter has let through
NameProbe ==
    /\ probe.phase = "in"
    /\ checkFileType(probe).accept
    /\ probe' = [phase |-> "out",
                 originalname |-> probe.originalname,
                 mimetype |-> probe.mimetype,
                 a |-> probe.a, b |-> probe.b,
                 key |-> StorageKey(probe, probe.a, probe.b)]
    /\ UNCHANGED serverVars

SpecName == NameInit /\ [][NameProbe]_vars

(***************************************************************************)
(* Properties                                                              *)
(***************************************************************************)
IsUpload(r) == req[r].method = "POST"
IsDelete(r) == req[r].method = "DELETE"
HasImage(r) == req[r].file # <<>> /\ req[r].file[1].fieldname = "image"
Rejected(r) == HasImage(r) /\ ~checkFileType(req[r].file[1]).accept
WrittenBy(r) == {j \in 1..Len(written) : written[j].owner = r}
SuccessBody(b) == "response" \in DOMAIN b
Succeeded(r) == pc[r] = "done" /\ IsUpload(r) /\ SuccessBody(responses[r][1].body)

\* C1: whenever the filter accepts a file, the file's extension, lower-cased,
\* is exactly one of .jpg .jpeg .png .gif and its MIME type is exactly one of
\* image/jpg image/jpeg image/png image/gif.
C1_AcceptsOnlyExactTypes ==
    (probe.phase = "out" /\ probe.result.accept)
      => /\ toLowerCase(extname(probe.originalname)) \in AllowedExts
         /\ probe.mimetype \in AllowedMimes

\* C2: no upload is started for a request unless the filter accepted its
\* file; a request whose file the filter rejected never starts an upload and
\* never has an object stored, the rejection is the error argument of the
\* completion callback, and the one response sent is { error: <detail> }.
C2_RejectedBeforeStorage ==
    \A r \in Reqs :
      /\ putCalls[r] # <<>> => (HasImage(r) /\ ~Rejected(r))
      /\ (Rejected(r) /\ pc[r] # "filter")
           => /\ putCalls[r] = <<>>
              /\ WrittenBy(r) = {}
              /\ reqErr[r] = ImagesOnly
              /\ pc[r] = "callback" => responses[r] = <<>>
              /\ pc[r] = "done"
                   => responses[r] = << Json(200, [error |-> ImagesOnly]) >>

C2_Witness ==
    \E r \in Reqs :
      /\ pc[r] = "done" /\ Rejected(r)
      /\ responses[r] = << Json(200, [error |-> ImagesOnly]) >>

TokenLen(key, name) == Len(key) - Len(KeyPrefix) - Len(extname(name))
Token(key, name) ==
    SubSeq(key, Len(KeyPrefix) + 1, Len(key) - Len(extname(name)))
KeyExt(key, name) ==
    SubSeq(key, Len(key) - Len(extname(name)) + 1, Len(key))

\* the parts of C3 that do not concern the token's length: the key is
\* saskengallery/<token><ext>, the token is base-36, and <ext> is a dot and
\* the original extension in its original letter case
KeyShape(key, name) ==
    /\ Len(key) >= Len(KeyPrefix) + Len(extname(name))
    /\ SubSeq(key, 1, Len(KeyPrefix)) = KeyPrefix
    /\ \A i \in 1..Len(Token(key, name)) : Token(key, name)[i] \in Base36Chars
    /\ KeyExt(key, name) = extname(name)
    /\ Len(extname(name)) >= 2 /\ extname(name)[1] = "."
    /\ Contains(name, KeyExt(key, name))

\* C3 as stated: the key is saskengallery/<token><ext> with a base-36 token
\* of 20 to 34 characters and the original extension, case preserved.
C3_TokenAtLeast20 ==
    probe.phase = "out"
      => /\ KeyShape(probe.key, probe.originalname)
         /\ TokenLen(probe.key, probe.originalname) \in 20..34

\* C3 amended: the key is saskengallery/<token><ext> with a base-36 token of
\* 0 to 26 characters (two fragments of at most 13 each) and the original
\* extension, case preserved.
C3_TokenAtMost26 ==
    probe.phase = "out"
      => /\ KeyShape(probe.key, probe.originalname)
         /\ TokenLen(probe.key, probe.originalname)
              \in 0..(2 * (SubstringEnd - SubstringStart))

C3_Witness ==
    /\ probe.phase = "out"
    /\ probe.originalname = n_a_b_GIF
    /\ Len(probe.a) > SubstringEnd
    /\ Len(probe.b) = 3
    /\ TokenLen(probe.key, probe.originalname) = 14

\* C4: two requests that both got the success body were stored under two
\* different keys.
C4_DistinctKeys ==
    \A r1 \in Reqs, r2 \in Reqs :
      (r1 # r2 /\ Succeeded(r1) /\ Succeeded(r2))
        => reqFile[r1][1].key # reqFile[r2][1].key

\* C6: a finished DELETE whose storage call fulfilled was answered 200
\* { message: "File deleted successfully" }; one whose call rejected, for
\* whatever reason, was answered 500 { error: "Failed to delete file from
\* S3" } and nothing else.
C6_DeleteResponse ==
    \A r \in Reqs :
      (IsDelete(r) /\ pc[r] = "done")
        => /\ settled[r] # ""
           /\ settled[r] = "fulfilled"
                => responses[r] = << Json(200, [message |-> FileDeleted]) >>
           /\ settled[r] # "fulfilled"
                => responses[r] = << Json(500, [error |-> FailedToDelete]) >>

C6_Witness ==
    \E r1 \in Reqs, r2 \in Reqs :
      /\ IsDelete(r1) /\ pc[r1] = "done" /\ settled[r1] = "fulfilled"
      /\ IsDelete(r2) /\ pc[r2] = "done" /\ settled[r2] = "NoSuchKey"
      /\ responses[r2][1].status = 500

\* C7: an upload request without a file in the expected field and without a
\* middleware error starts no upload, has nothing stored, and is answered
\* 200 { error: "No File Selected" }.
C7_NoFileSelected ==
    \A r \in Reqs :
      (IsUpload(r) /\ ~HasImage(r) /\ reqErr[r] = "")
        => /\ putCalls[r] = <<>>
           /\ WrittenBy(r) = {}
           /\ pc[r] = "done"
                => responses[r] = << Json(200, [error |-> NoFileSelected]) >>

C7_Witness ==
    \E r \in Reqs :
      /\ IsUpload(r) /\ req[r].file = <<>> /\ pc[r] = "done"
      /\ responses[r][1].body.error = NoFileSelected

\* C8: every success body carries the confirmation text and the URL
\* AWS_BUCKET_PATH/K, where K is the key of the one complete object the
\* storage service stored for that request.
C8_FileUrlIsOwnKey ==
    \A r \in Reqs :
      \A i \in 1..Len(responses[r]) :
        SuccessBody(responses[r][i].body)
          => /\ responses[r][i].body.response = ImageUploaded
             /\ responses[r][i].status = 200
             /\ Cardinality(WrittenBy(r)) = 1
             /\ \A j \in WrittenBy(r) :
                  /\ ~written[j].partial
                  /\ putCalls[r] = << written[j].key >>
                  /\ responses[r][i].body.fileUrl
                       = AWS_BUCKET_PATH \o <<"/">> \o written[j].key

C8_Witness ==
    \E r1 \in Reqs, r2 \in Reqs :
      /\ r1 # r2 /\ Succeeded(r1) /\ Succeeded(r2)
      /\ reqFile[r1][1].key # reqFile[r2][1].key

\* what a request's own input, own key and own storage outcome determine
ExpectedResponse(r) ==
    IF IsDelete(r)
    THEN IF settled[r] = "fulfilled"
         THEN Json(200, [message |-> FileDeleted])
         ELSE Json(500, [error |-> FailedToDelete])
    ELSE IF req[r].file = <<>>
    THEN Json(200, [error |-> NoFileSelected])
    ELSE IF req[r].file[1].fieldname # "image"
    THEN Json(200, [error |-> "LIMIT_UNEXPECTED_FILE"])
    ELSE IF Rejected(r)
    THEN Json(200, [error |-> ImagesOnly])
    ELSE IF req[r].file[1].size > fileSize
    THEN Json(200, [error |-> "LIMIT_FILE_SIZE"])
    ELSE IF WrittenBy(r) = {}
    THEN Json(200, [error |-> "S3UploadError"])
    ELSE Json(200, [response |-> ImageUploaded,
                    fileUrl |-> AWS_BUCKET_PATH \o <<"/">>
                                  \o putCalls[r][Len(putCalls[r])]])

OwnResponse ==
    \A r \in Reqs : pc[r] = "done" => responses[r] = << ExpectedResponse(r) >>

\* a step leaves untouched everything that belongs to a request whose
\* handler did not move
OthersUntouched ==
    \A r \in Reqs :
      pc'[r] = pc[r]
        => /\ req'[r] = req[r] /\ reqFile'[r] = reqFile[r]
           /\ reqErr'[r] = reqErr[r] /\ putCalls'[r] = putCalls[r]
           /\ delCalls'[r] = delCalls[r] /\ settled'[r] = settled[r]
           /\ responses'[r] = responses[r]

\* C9: under every interleaving, a finished request's response is the one
\* its own input, its own key and its own storage outcome determine, and no
\* step of one request changes the request data, key, error or response of
\* another.
C9_Independent == []OwnResponse /\ [][OthersUntouched]_vars

C9_Witness ==
    \E r1 \in Reqs, r2 \in Reqs :
      /\ Succeeded(r1)
      /\ IsDelete(r2) /\ pc[r2] = "done" /\ settled[r2] = "fulfilled"
      /\ req[r2].key = << reqFile[r1][1].key >>
      /\ reqFile[r1][1].key \notin DOMAIN bucket

\* C10: a DELETE request sends one DeleteObjectCommand, with the body's key
\* as it came (also when undefined or empty), sends no response while the
\* call is unsettled, never more than one, and exactly one once finished.
C10_OneCallOneResponse ==
    \A r \in Reqs :
      IsDelete(r)
        => /\ delCalls[r] = << [Key |-> req[r].key] >>
           /\ Len(responses[r]) <= 1
           /\ settled[r] = "" => (responses[r] = <<>> /\ pc[r] = "pending")
           /\ pc[r] = "done" => Len(responses[r]) = 1

C10_Witness ==
    \E r1 \in Reqs, r2 \in Reqs :
      /\ IsDelete(r1) /\ req[r1].key = <<>> /\ pc[r1] = "done"
      /\ settled[r1] \in RejectReasons
      /\ IsDelete(r2) /\ req[r2].key = << <<>> >> /\ pc[r2] = "pending"

====
